---- MODULE Spec2Model ----
(***************************************************************************)
(* Orchestration layer of File-Sync-Tool: the scheduler of lib/scheduler   *)
(* (startScheduler / stopScheduler / executeScan) over the shared appStore *)
(* of lib/store, the page-local scheduler of TaskStatusPage.vue with its   *)
(* cancel and pause controls, and the copy-progress listener.              *)
(*                                                                         *)
(* JavaScript runs every handler to its next await without interleaving,   *)
(* so one action is one synchronous stretch of a handler: from the call to *)
(* the first await, or from the settlement of an awaited collaborator call *)
(* to the end of the handler.                                              *)
(***************************************************************************)
EXTENDS Integers, Sequences, FiniteSets, TLC

\* ------------------------------------------------------------------ bounds
MaxLogLen == 4        \* log lines admitted in one run
MaxPending == 2       \* calls awaiting one collaborator operation at once
MaxScans == 2         \* scanNow calls in flight at once
MaxTimers == 2        \* interval timers live at once
MaxClockSteps == 1    \* clock advances in one run
MaxClears == 1        \* deferred clears pending at once
MaxEvents == 2        \* audit events recorded in one run
MaxLevelled == 1      \* log-message events of a level other than info in one run

\* ---------------------------------------------------------- program values
LOG_CAP == 1000
NoTimer == 0
\* the delay of the deferred clear of the progress, in milliseconds
GRACE_MS == 2000
NoProgress == [folder |-> "", percentage |-> 0 - 1]
NoConfig == [interval_minutes |-> 0]
NoRunTime == "-"
\* no handleManualDeploy call is in progress
NoDeploy == [targets |-> <<>>, calls |-> <<>>, outcomes |-> <<>>,
             successCount |-> 0, failCount |-> 0]
\* the servers of the stored configuration: one of them disabled, one unnamed
Servers == << [id |-> "s1", name |-> "web", host |-> "10.0.0.1", enabled |-> TRUE],
              [id |-> "s2", name |-> "staging", host |-> "10.0.0.2", enabled |-> FALSE],
              [id |-> "s3", name |-> "", host |-> "10.0.0.3", enabled |-> TRUE] >>
\* the configuration of the settings page before load() has resolved
DefaultConfig == [interval_minutes |-> 10, servers |-> <<>>]
\* the manual deployment form as the page is created
NoForm == [selectedServerId |-> "", manualLocalPath |-> "", manualRemotePath |-> ""]
\* values of the server select; s9 is the id of no server
Selections == {"", "all", "s1", "s2", "s3", "s9"}
Paths == {"", "/p"}
DeployForms == [selectedServerId : Selections, manualLocalPath : Paths, manualRemotePath : Paths]
\* no testAllServers call is in progress and none has completed
NoTest == [index |-> 0, results |-> <<>>, calls |-> <<>>, outcomes |-> <<>>, alerted |-> ""]
\* the minimum of the interval input of the settings page
MIN_INTERVAL == 5
\* values typed into the interval input
FormIntervals == {1, 5, 10}

\* interval_minutes values the stored configuration takes
Intervals == {5, 10}
\* the clock (minutes) advances by the smallest interval
ClockStep == CHOOSE i \in Intervals : \A j \in Intervals : i <= j
StartClock == 23 * 60 + 50
Folders == {"A", "B"}
\* percentages a progress event reports
Percentages == {50, 100}

VARIABLES
    \* lib/store appStore
    logs, progress, isRunning, nextRunTime, isManualDeploying,
    \* lib/scheduler module state
    timer,
    \* TaskStatusPage.vue component state
    pageIsRunning, pageNextRunTime, pageConfig, pageTimer, isCancelling, isPaused,
    \* the JavaScript runtime and the collaborator
    intervals,        \* live setInterval timers: [id, period, due, owner]
    getConfigCalls,   \* startScheduler calls awaiting getConfig, by isRestart
    loadConfigCalls,  \* loadConfig calls of the page awaiting getConfig
    scanNowCalls,     \* scanNow calls in flight, by caller
    cancelScanCalls,  \* handleCancel calls awaiting cancelScan
    pauseCalls,       \* togglePause calls awaiting pauseScan or resumeScan
    clearTimeouts,    \* pending deferred clears of the progress, by folder
    \* SettingsPage.vue component state
    isDeploying, deployMsg,
    deployRun,        \* the handleManualDeploy call in progress: its loop and counters
    settingsConfig,   \* the configuration the settings page edits
    settingsLoadCalls, \* load calls of the settings page awaiting getConfig
    deployForm,       \* selectedServerId, manualLocalPath, manualRemotePath
    saveCalls,        \* save calls awaiting saveConfig, each with the configuration sent
    testRun,          \* the testAllServers call in progress: its loop and results
    events,           \* addSystemEvent calls, oldest first
    storedConfig,     \* the configuration get_config returns
    clock,            \* minutes since midnight of the first day
    \* observation
    lastOp,           \* the handler stretch that ran last
    stopQuiet         \* stopScheduler returned and no start was requested since

storeVars == <<logs, progress, isRunning, nextRunTime, isManualDeploying>>
pageVars == <<pageIsRunning, pageNextRunTime, pageConfig, pageTimer>>
flagVars == <<isCancelling, isPaused, cancelScanCalls, pauseCalls>>
deployVars == <<isDeploying, deployMsg, deployRun>>
settingsVars == <<settingsConfig, settingsLoadCalls, deployForm, saveCalls, testRun>>

vars == <<storeVars, timer, pageVars, flagVars, deployVars, settingsVars, clearTimeouts, intervals,
          getConfigCalls, loadConfigCalls, scanNowCalls, events, storedConfig, clock, lastOp, stopQuiet>>

\* ----------------------------------------------------------------- helpers
Op(name, isRestart, outcome) ==
    [op |-> name, isRestart |-> isRestart, outcome |-> outcome]

Pad2(n) == IF n < 10 THEN "0" \o ToString(n) ELSE ToString(n)

\* Date.prototype.toLocaleTimeString: the time of day, without the date
toLocaleTimeString(ms) ==
    LET s == (ms \div 1000) % 86400
    IN  Pad2(s \div 3600) \o ":" \o Pad2((s % 3600) \div 60) \o ":" \o Pad2(s % 60)

DateNow == clock * 60 * 1000

\* i18n t(key, args): the key with its arguments
t(key, arg) == IF arg = "" THEN key ELSE key \o "{" \o arg \o "}"

\* an addLog that never evicts
addLogUncapped(lg, msg, type) == <<[msg |-> msg, type |-> type]>> \o lg

\* unshift, then pop beyond the cap; the entry's display time is left out
addLog(lg, msg, type) ==
    LET unshifted == <<[msg |-> msg, type |-> type]>> \o lg
    IN  IF Len(unshifted) > LOG_CAP
        THEN SubSeq(unshifted, 1, Len(unshifted) - 1)
        ELSE unshifted

addSystemEvent(ev, action, desc) == Append(ev, [action |-> action, desc |-> desc])

\* updateNextRunTime that formats the delay alone
updateNextRunTimeOfDelay(delayMs) == toLocaleTimeString(delayMs)

updateNextRunTime(delayMs) == toLocaleTimeString(DateNow + delayMs)

\* forEach(x => addLog(prefix + x, type)), first element logged first
RECURSIVE addLogEach(_, _, _, _)
addLogEach(lg, prefix, items, type) ==
    IF items = <<>> THEN lg
    ELSE addLogEach(addLog(lg, prefix \o Head(items), type), prefix, Tail(items), type)

ScansInFlight == scanNowCalls.executeScan + scanNowCalls.handleScan

\* clearInterval that cancels nothing
clearIntervalKeepsTimer(live, handle) == live

\* the interval timers left after clearInterval(handle)
clearInterval(live, handle) == {tm \in live : tm.id # handle}

\* the handle setInterval returns: the first one that no live timer has and
\* that no variable holds
setIntervalId ==
    LET used == {tm.id : tm \in intervals} \cup {timer, pageTimer}
    IN  CHOOSE i \in 1..(Cardinality(used) + 1) :
            /\ i \notin used
            /\ \A j \in 1..(i - 1) : j \in used

setInterval(owner, delayMs) ==
    [id |-> setIntervalId, period |-> delayMs, due |-> DateNow + delayMs, owner |-> owner]

\* ------------------------------------------------------------ executeScan
\* executeScan up to its await: the refusal, or the running marker and scanNow
executeScanLogs(lg) ==
    IF isManualDeploying
    THEN addLog(lg, t("console.scanFailed", "Manual deploy in progress"), "error")
    ELSE addLog(lg, t("console.running", ""), "info")

executeScanCalls(calls) ==
    IF isManualDeploying THEN calls ELSE [calls EXCEPT !.executeScan = @ + 1]

ScanResults ==
    { [scanned_paths |-> 1, found_folders |-> <<"A">>, copied_folders |-> <<>>, errors |-> <<"B">>] }

ScanOutcomes ==
    { [ok |-> TRUE, result |-> r, error |-> ""] : r \in ScanResults }
    \cup { [ok |-> FALSE, result |-> CHOOSE r \in ScanResults : TRUE,
            error |-> "scan failed"] }

\* results with every combination of found, copied and failed items that the
\* log bound admits after the running marker and the summary
MaxItems == MaxLogLen - 2
SeqsUpTo(S, n) == UNION {[1..k -> S] : k \in 0..n}
WideScanResults ==
    { r \in { [scanned_paths |-> 1, found_folders |-> f, copied_folders |-> c, errors |-> e] :
                f \in SeqsUpTo(Folders, MaxItems), c \in SeqsUpTo(Folders, MaxItems),
                e \in SeqsUpTo(Folders, MaxItems) } :
        Len(r.found_folders) + Len(r.copied_folders) + Len(r.errors) <= MaxItems }

WideScanOutcomes ==
    { [ok |-> TRUE, result |-> r, error |-> ""] : r \in WideScanResults }
    \cup { o \in ScanOutcomes : ~o.ok }

\* a variant that logs the per-item errors before the found candidates
scanSettledLogsErrorsFirst(lg, o) ==
    IF o.ok
    THEN LET r == o.result
             summary == addLog(lg, t("console.scanComplete",
                                     ToString(r.scanned_paths) \o "," \o ToString(Len(r.found_folders))
                                     \o "," \o ToString(Len(r.copied_folders))), "success")
             failed == addLogEach(summary, "Error: ", r.errors, "error")
             found == addLogEach(failed, "Found candidate: ", r.found_folders, "info")
         IN  addLogEach(found, "Successfully copied: ", r.copied_folders, "success")
    ELSE addLog(lg, t("console.scanFailed", o.error), "error")

\* the log after scanNow settled with outcome o: the try body or the catch
scanSettledLogs(lg, o) ==
    IF o.ok
    THEN LET r == o.result
             summary == addLog(lg, t("console.scanComplete",
                                     ToString(r.scanned_paths) \o "," \o ToString(Len(r.found_folders))
                                     \o "," \o ToString(Len(r.copied_folders))), "success")
             found == addLogEach(summary, "Found candidate: ", r.found_folders, "info")
             copied == addLogEach(found, "Successfully copied: ", r.copied_folders, "success")
         IN  addLogEach(copied, "Error: ", r.errors, "error")
    ELSE addLog(lg, t("console.scanFailed", o.error), "error")

\* a manual trigger: executeScan() called directly
ExecuteScan ==
    /\ ScansInFlight < MaxScans
    /\ logs' = executeScanLogs(logs)
    /\ Len(logs') <= MaxLogLen
    /\ scanNowCalls' = executeScanCalls(scanNowCalls)
    /\ lastOp' = Op("executeScan", FALSE, IF isManualDeploying THEN "refused" ELSE "issued")
    /\ UNCHANGED <<settingsVars, deployVars, clearTimeouts,
                   progress, isRunning, nextRunTime, isManualDeploying, timer, pageVars,
                   flagVars, intervals, getConfigCalls, loadConfigCalls, events,
                   storedConfig, clock, stopQuiet>>

\* a variant that calls scanNow again when the call failed
ScanSettleRetrying(o) ==
    /\ scanNowCalls.executeScan > 0
    /\ scanNowCalls' = IF o.ok THEN [scanNowCalls EXCEPT !.executeScan = @ - 1]
                       ELSE scanNowCalls
    /\ logs' = scanSettledLogs(logs, o)
    /\ Len(logs') <= MaxLogLen
    /\ progress' = NoProgress
    /\ lastOp' = Op("scanSettled", FALSE, IF o.ok THEN "ok" ELSE "failed")
    /\ UNCHANGED <<settingsVars, deployVars, clearTimeouts, isRunning, nextRunTime, isManualDeploying,
                   timer, pageVars, flagVars, intervals, getConfigCalls, loadConfigCalls,
                   events, storedConfig, clock, stopQuiet>>

\* scanNow of executeScan settles: the try body or the catch, then the finally
ScanSettle(o) ==
    /\ scanNowCalls.executeScan > 0
    /\ scanNowCalls' = [scanNowCalls EXCEPT !.executeScan = @ - 1]
    /\ logs' = scanSettledLogs(logs, o)
    /\ Len(logs') <= MaxLogLen
    /\ progress' = NoProgress
    /\ lastOp' = Op("scanSettled", FALSE, IF o.ok THEN "ok" ELSE "failed")
    /\ UNCHANGED <<settingsVars, deployVars, clearTimeouts,
                   isRunning, nextRunTime, isManualDeploying, timer, pageVars, flagVars,
                   intervals, getConfigCalls, loadConfigCalls, events, storedConfig, clock,
                   stopQuiet>>

\* ---------------------------------------------------------- startScheduler
\* startScheduler without its isRunning guard
StartSchedulerUnguarded(isRestart) ==
    /\ getConfigCalls[TRUE] + getConfigCalls[FALSE] < MaxPending
    /\ getConfigCalls' = [getConfigCalls EXCEPT ![isRestart] = @ + 1]
    /\ lastOp' = Op("startScheduler", isRestart, "awaiting")
    /\ stopQuiet' = FALSE
    /\ UNCHANGED <<settingsVars, deployVars, clearTimeouts,
                   storeVars, timer, pageVars, flagVars, intervals, loadConfigCalls,
                   scanNowCalls, events, storedConfig, clock>>

\* startScheduler(isRestart) up to its await: the guard, then getConfig()
StartScheduler(isRestart) ==
    /\ IF isRunning /\ ~isRestart
       THEN UNCHANGED getConfigCalls
       ELSE /\ getConfigCalls[TRUE] + getConfigCalls[FALSE] < MaxPending
            /\ getConfigCalls' = [getConfigCalls EXCEPT ![isRestart] = @ + 1]
    /\ lastOp' = Op("startScheduler", isRestart,
                    IF isRunning /\ ~isRestart THEN "returned" ELSE "awaiting")
    /\ stopQuiet' = FALSE
    /\ UNCHANGED <<settingsVars, deployVars, clearTimeouts,
                   storeVars, timer, pageVars, flagVars, intervals, loadConfigCalls,
                   scanNowCalls, events, storedConfig, clock>>

\* getConfig rejects: startScheduler has no handler, its promise rejects
GetConfigRejected(isRestart) ==
    /\ getConfigCalls[isRestart] > 0
    /\ getConfigCalls' = [getConfigCalls EXCEPT ![isRestart] = @ - 1]
    /\ lastOp' = Op("getConfigSettled", isRestart, "rejected")
    /\ UNCHANGED <<settingsVars, deployVars, clearTimeouts,
                   storeVars, timer, pageVars, flagVars, intervals, loadConfigCalls,
                   scanNowCalls, events, storedConfig, clock, stopQuiet>>

\* getConfig resolves with no configuration
GetConfigNull(isRestart) ==
    /\ getConfigCalls[isRestart] > 0
    /\ getConfigCalls' = [getConfigCalls EXCEPT ![isRestart] = @ - 1]
    /\ logs' = addLog(logs, t("console.failedLoadConfig", "Config is null"), "error")
    /\ Len(logs') <= MaxLogLen
    /\ lastOp' = Op("getConfigSettled", isRestart, "null")
    /\ UNCHANGED <<settingsVars, deployVars, clearTimeouts,
                   progress, isRunning, nextRunTime, isManualDeploying, timer, pageVars,
                   flagVars, intervals, loadConfigCalls, scanNowCalls, events, storedConfig,
                   clock, stopQuiet>>

\* startScheduler that sets a new timer without clearing the one it holds
startSchedulerTimersNoClear(intervalMs) ==
    intervals \cup {setInterval("scheduler", intervalMs)}

\* the timers live once startScheduler cleared its timer and set a new one
startSchedulerTimers(intervalMs) ==
    (IF timer # NoTimer THEN clearInterval(intervals, timer) ELSE intervals)
        \cup {setInterval("scheduler", intervalMs)}

\* getConfig resolves with the stored configuration: the rest of startScheduler
GetConfigResolved(isRestart) ==
    LET config == storedConfig
        intervalMs == config.interval_minutes * 60 * 1000
        msg == t("console.schedulerStarted", ToString(config.interval_minutes))
    IN  /\ getConfigCalls[isRestart] > 0
        /\ Cardinality(intervals) < MaxTimers
        /\ getConfigCalls' = [getConfigCalls EXCEPT ![isRestart] = @ - 1]
        /\ isRunning' = TRUE
        /\ IF ~isRestart
           THEN /\ ScansInFlight < MaxScans
                /\ logs' = executeScanLogs(addLog(logs, msg, "info"))
                /\ events' = addSystemEvent(events, "SCHEDULER_START", msg)
                /\ scanNowCalls' = executeScanCalls(scanNowCalls)
           ELSE UNCHANGED <<logs, events, scanNowCalls>>
        /\ Len(logs') <= MaxLogLen
        /\ nextRunTime' = updateNextRunTime(intervalMs)
        /\ intervals' = startSchedulerTimers(intervalMs)
        /\ timer' = setIntervalId
        /\ lastOp' = Op("getConfigSettled", isRestart, "resolved")
        /\ UNCHANGED <<settingsVars, deployVars, clearTimeouts,
                       progress, isManualDeploying, pageVars, flagVars, loadConfigCalls,
                       storedConfig, clock, stopQuiet>>

\* the callback of the scheduler's setInterval fires
Tick(tm) ==
    /\ tm \in intervals
    /\ tm.owner = "scheduler"
    /\ tm.due <= DateNow
    /\ ScansInFlight < MaxScans
    /\ logs' = executeScanLogs(logs)
    /\ Len(logs') <= MaxLogLen
    /\ scanNowCalls' = executeScanCalls(scanNowCalls)
    /\ nextRunTime' = updateNextRunTime(tm.period)
    /\ intervals' = (intervals \ {tm}) \cup {[tm EXCEPT !.due = @ + tm.period]}
    /\ lastOp' = Op("tick", FALSE, IF isManualDeploying THEN "refused" ELSE "issued")
    /\ UNCHANGED <<settingsVars, deployVars, clearTimeouts,
                   progress, isRunning, isManualDeploying, timer, pageVars, flagVars,
                   getConfigCalls, loadConfigCalls, events, storedConfig, clock, stopQuiet>>

\* a stopScheduler that leaves nextRunTime as it was
StopSchedulerKeepingNextRun ==
    LET msg == t("console.schedulerStopped", "")
    IN  /\ isRunning' = FALSE
        /\ intervals' = IF timer # NoTimer THEN clearInterval(intervals, timer) ELSE intervals
        /\ timer' = NoTimer
        /\ UNCHANGED nextRunTime
        /\ logs' = addLog(logs, msg, "info")
        /\ Len(logs') <= MaxLogLen
        /\ events' = addSystemEvent(events, "SCHEDULER_STOP", msg)
        /\ lastOp' = Op("stopScheduler", FALSE, "")
        /\ stopQuiet' = TRUE
        /\ UNCHANGED <<settingsVars, deployVars, clearTimeouts,
                       progress, isManualDeploying, pageVars, flagVars, getConfigCalls,
                       loadConfigCalls, scanNowCalls, storedConfig, clock>>

\* ----------------------------------------------------------- stopScheduler
StopScheduler ==
    LET msg == t("console.schedulerStopped", "")
    IN  /\ isRunning' = FALSE
        /\ intervals' = IF timer # NoTimer THEN clearInterval(intervals, timer) ELSE intervals
        /\ timer' = NoTimer
        /\ nextRunTime' = NoRunTime
        /\ logs' = addLog(logs, msg, "info")
        /\ Len(logs') <= MaxLogLen
        /\ events' = addSystemEvent(events, "SCHEDULER_STOP", msg)
        /\ lastOp' = Op("stopScheduler", FALSE, "")
        /\ stopQuiet' = TRUE
        /\ UNCHANGED <<settingsVars, deployVars, clearTimeouts,
                       progress, isManualDeploying, pageVars, flagVars, getConfigCalls,
                       loadConfigCalls, scanNowCalls, storedConfig, clock>>

\* ------------------------------------------------------------- environment
\* time passes; a due timer fires before the clock moves on
AdvanceClock ==
    /\ clock + ClockStep <= StartClock + MaxClockSteps * ClockStep
    /\ \A tm \in intervals : tm.due > DateNow
    /\ \A f \in Folders : clearTimeouts[f] = 0 \/ GRACE_MS >= ClockStep * 60 * 1000
    /\ clock' = clock + ClockStep
    /\ lastOp' = Op("advanceClock", FALSE, "")
    /\ UNCHANGED <<settingsVars, deployVars, clearTimeouts,
                   storeVars, timer, pageVars, flagVars, intervals, getConfigCalls,
                   loadConfigCalls, scanNowCalls, events, storedConfig, stopQuiet>>

\* the minutes of a day, after which the displayed time of day repeats
DayMinutes == 24 * 60

\* time passes without an end: the clock and the due times are counted from the
\* start of the current day of the run, which leaves every delay and every
\* displayed time of day as it is; a due timer fires before the clock moves on
AdvanceDayClock ==
    LET newDay == clock + ClockStep >= StartClock + DayMinutes
    IN  /\ \A tm \in intervals : tm.due > DateNow
        /\ \A f \in Folders : clearTimeouts[f] = 0 \/ GRACE_MS >= ClockStep * 60 * 1000
        /\ clock' = IF newDay THEN clock + ClockStep - DayMinutes ELSE clock + ClockStep
        /\ intervals' = IF newDay
                        THEN {[tm EXCEPT !.due = @ - DayMinutes * 60 * 1000] : tm \in intervals}
                        ELSE intervals
        /\ lastOp' = Op("advanceClock", FALSE, "")
        /\ UNCHANGED <<settingsVars, deployVars, clearTimeouts, storeVars, timer, pageVars,
                       flagVars, getConfigCalls, loadConfigCalls, scanNowCalls, events,
                       storedConfig, stopQuiet>>

\* saveConfig: the collaborator stores a configuration with another
\* interval_minutes
SaveConfig(i) ==
    /\ i # storedConfig.interval_minutes
    /\ storedConfig' = [storedConfig EXCEPT !.interval_minutes = i]
    /\ lastOp' = Op("saveConfig", FALSE, "")
    /\ UNCHANGED <<settingsVars, deployVars, clearTimeouts,
                   storeVars, timer, pageVars, flagVars, intervals, getConfigCalls,
                   loadConfigCalls, scanNowCalls, events, clock, stopQuiet>>

\* the deferred clears that have not fired yet
PendingClears == LET Sum[S \in SUBSET Folders] ==
                         IF S = {} THEN 0
                         ELSE LET f == CHOOSE g \in S : TRUE
                              IN  clearTimeouts[f] + Sum[S \ {f}]
                 IN  Sum[Folders]

\* a copy-progress event arrives: the progress is replaced and, at 100 percent,
\* the deferred clear is scheduled
ProgressEvent(folder, percentage) ==
    /\ ScansInFlight > 0
    /\ progress' = [folder |-> folder, percentage |-> percentage]
    /\ IF percentage >= 100
       THEN /\ PendingClears < MaxClears
            /\ clearTimeouts' = [clearTimeouts EXCEPT ![folder] = @ + 1]
       ELSE /\ progress' # progress
            /\ UNCHANGED clearTimeouts
    /\ lastOp' = Op("progressEvent", FALSE, "")
    /\ UNCHANGED <<settingsVars, deployVars, logs, isRunning, nextRunTime, isManualDeploying, timer, pageVars,
                   flagVars, intervals, getConfigCalls, loadConfigCalls, scanNowCalls,
                   events, storedConfig, clock, stopQuiet>>

\* a deferred clear that does not compare the folder
DeferredClearAnyFolder(folder) ==
    /\ clearTimeouts[folder] > 0
    /\ clearTimeouts' = [clearTimeouts EXCEPT ![folder] = @ - 1]
    /\ progress' = NoProgress
    /\ isPaused' = FALSE
    /\ lastOp' = Op("deferredClear", FALSE, "cleared")
    /\ UNCHANGED <<settingsVars, deployVars, logs, isRunning, nextRunTime, isManualDeploying, timer, pageVars,
                   isCancelling, cancelScanCalls, pauseCalls, intervals, getConfigCalls,
                   loadConfigCalls, scanNowCalls, events, storedConfig, clock, stopQuiet>>

\* the deferred clear fires: it clears only the progress of its own folder
DeferredClear(folder) ==
    /\ clearTimeouts[folder] > 0
    /\ clearTimeouts' = [clearTimeouts EXCEPT ![folder] = @ - 1]
    /\ IF progress.folder = folder
       THEN progress' = NoProgress /\ isPaused' = FALSE
       ELSE UNCHANGED <<progress, isPaused>>
    /\ lastOp' = Op("deferredClear", FALSE, IF progress.folder = folder THEN "cleared" ELSE "kept")
    /\ UNCHANGED <<settingsVars, deployVars, logs, isRunning, nextRunTime, isManualDeploying, timer, pageVars,
                   isCancelling, cancelScanCalls, pauseCalls, intervals, getConfigCalls,
                   loadConfigCalls, scanNowCalls, events, storedConfig, clock, stopQuiet>>

\* log-message events carry numbered lines, enough of them to pass the cap
MaxInserts == LOG_CAP + 2
Line(k) == "line " \o ToString(k)
LogLevels == {"info", "error", "success"}

\* the number of the line at the head of the log, 0 for the empty log
LineNo(lg) == IF lg = <<>> THEN 0 ELSE CHOOSE k \in 1..MaxInserts : Line(k) = lg[1].msg

\* the log-message listener: the level of the payload picks the type of the entry
LogMessage(level) ==
    LET n == LineNo(logs) + 1
        type == IF level = "success" THEN "success"
                ELSE IF level = "error" THEN "error" ELSE "info"
    IN  /\ n <= MaxInserts
        /\ level # "info" => n <= MaxLevelled
        /\ logs' = addLog(logs, Line(n), type)
        /\ lastOp' = Op("logMessage", FALSE, level)
        /\ UNCHANGED <<settingsVars, deployVars, clearTimeouts, progress, isRunning, nextRunTime,
                       isManualDeploying, timer, pageVars, flagVars, intervals,
                       getConfigCalls, loadConfigCalls, scanNowCalls, events, storedConfig,
                       clock, stopQuiet>>

\* a manual deployment begins or ends
SetManualDeploying(b) ==
    /\ isManualDeploying # b
    /\ isManualDeploying' = b
    /\ lastOp' = Op("manualDeploy", FALSE, IF b THEN "begin" ELSE "end")
    /\ UNCHANGED <<settingsVars, deployVars, clearTimeouts,
                   logs, progress, isRunning, nextRunTime, timer, pageVars, flagVars,
                   intervals, getConfigCalls, loadConfigCalls, scanNowCalls, events,
                   storedConfig, clock, stopQuiet>>

\* ------------------------------------------- TaskStatusPage.vue: handleCancel
\* a variant that ends the cycle locally: it resets the progress itself
HandleCancelAborting ==
    LET targetName == progress.folder
        msg == "console.cancelling " \o (IF targetName # "" THEN "(" \o targetName \o ")" ELSE "")
    IN  /\ progress # NoProgress
        /\ IF isCancelling
           THEN UNCHANGED <<isCancelling, logs, cancelScanCalls, progress>>
           ELSE /\ isCancelling' = TRUE
                /\ logs' = addLog(logs, msg, "info")
                /\ Len(logs') <= MaxLogLen
                /\ cancelScanCalls' = cancelScanCalls + 1
                /\ progress' = NoProgress
        /\ lastOp' = Op("handleCancel", FALSE, IF isCancelling THEN "returned" ELSE "awaiting")
        /\ UNCHANGED <<settingsVars, deployVars, clearTimeouts, isRunning, nextRunTime, isManualDeploying,
                       timer, pageVars, isPaused, pauseCalls, intervals, getConfigCalls,
                       loadConfigCalls, scanNowCalls, events, storedConfig, clock, stopQuiet>>

\* a handleCancel without the guard on isCancelling
HandleCancelRepeating ==
    LET targetName == progress.folder
        msg == "console.cancelling " \o (IF targetName # "" THEN "(" \o targetName \o ")" ELSE "")
    IN  /\ progress # NoProgress
        /\ isCancelling' = TRUE
        /\ logs' = addLog(logs, msg, "info")
        /\ Len(logs') <= MaxLogLen
        /\ cancelScanCalls' = cancelScanCalls + 1
        /\ lastOp' = Op("handleCancel", FALSE, IF isCancelling THEN "returned" ELSE "awaiting")
        /\ UNCHANGED <<settingsVars, deployVars, clearTimeouts,
                       progress, isRunning, nextRunTime, isManualDeploying, timer, pageVars,
                       isPaused, pauseCalls, intervals, getConfigCalls, loadConfigCalls,
                       scanNowCalls,
                       events, storedConfig, clock, stopQuiet>>

\* handleCancel up to its await; its button is rendered while a progress is shown
HandleCancel ==
    LET targetName == progress.folder
        msg == "console.cancelling " \o (IF targetName # "" THEN "(" \o targetName \o ")" ELSE "")
    IN  /\ progress # NoProgress
        /\ IF isCancelling
           THEN UNCHANGED <<isCancelling, logs, cancelScanCalls>>
           ELSE /\ isCancelling' = TRUE
                /\ logs' = addLog(logs, msg, "info")
                /\ Len(logs') <= MaxLogLen
                /\ cancelScanCalls' = cancelScanCalls + 1
        /\ lastOp' = Op("handleCancel", FALSE, IF isCancelling THEN "returned" ELSE "awaiting")
        /\ UNCHANGED <<settingsVars, deployVars, clearTimeouts,
                       progress, isRunning, nextRunTime, isManualDeploying, timer, pageVars,
                       isPaused, pauseCalls, intervals, getConfigCalls, loadConfigCalls,
                       scanNowCalls,
                       events, storedConfig, clock, stopQuiet>>

\* a settlement of cancelScan whose failure leaves isCancelling set
CancelScanSettleKeepingFlag(ok) ==
    /\ cancelScanCalls > 0
    /\ cancelScanCalls' = cancelScanCalls - 1
    /\ IF ok
       THEN UNCHANGED <<logs, isCancelling>>
       ELSE /\ logs' = addLog(logs, "Cancel failed: error", "error")
            /\ Len(logs') <= MaxLogLen
            /\ UNCHANGED isCancelling
    /\ lastOp' = Op("cancelScanSettled", FALSE, IF ok THEN "ok" ELSE "failed")
    /\ UNCHANGED <<settingsVars, deployVars, clearTimeouts,
                   progress, isRunning, nextRunTime, isManualDeploying,
                   timer, pageVars, isPaused, pauseCalls, intervals, getConfigCalls,
                   loadConfigCalls, scanNowCalls, events, storedConfig, clock, stopQuiet>>

\* cancelScan settles: nothing more on success, the catch on failure
CancelScanSettle(ok) ==
    /\ cancelScanCalls > 0
    /\ cancelScanCalls' = cancelScanCalls - 1
    /\ IF ok
       THEN UNCHANGED <<logs, isCancelling>>
       ELSE /\ logs' = addLog(logs, "Cancel failed: error", "error")
            /\ Len(logs') <= MaxLogLen
            /\ isCancelling' = FALSE
    /\ lastOp' = Op("cancelScanSettled", FALSE, IF ok THEN "ok" ELSE "failed")
    /\ UNCHANGED <<settingsVars, deployVars, clearTimeouts,
                   progress, isRunning, nextRunTime, isManualDeploying,
                   timer, pageVars, isPaused, pauseCalls, intervals, getConfigCalls,
                   loadConfigCalls, scanNowCalls, events, storedConfig, clock, stopQuiet>>

\* -------------------------------------------- TaskStatusPage.vue: togglePause
\* a sequence without its i-th element
RemoveAt(seq, i) == [j \in 1..(Len(seq) - 1) |-> IF j < i THEN seq[j] ELSE seq[j + 1]]

\* togglePause up to its first await: the folder name and the direction are taken
TogglePause ==
    /\ IF progress = NoProgress
       THEN UNCHANGED pauseCalls
       ELSE /\ Len(pauseCalls) < MaxPending
            /\ pauseCalls' = Append(pauseCalls, [resume |-> isPaused, targetName |-> progress.folder])
    /\ lastOp' = Op("togglePause", FALSE, IF progress = NoProgress THEN "returned" ELSE "awaiting")
    /\ UNCHANGED <<settingsVars, deployVars, clearTimeouts,
                   storeVars, timer, pageVars, isCancelling, isPaused, cancelScanCalls,
                   intervals, getConfigCalls, loadConfigCalls, scanNowCalls, events,
                   storedConfig, clock, stopQuiet>>

\* a variant in which a pause also suspends the schedule shown by the page
TogglePauseSettleStopping(i, ok) ==
    LET call == pauseCalls[i]
        msg == (IF call.resume THEN "console.resumed " ELSE "console.paused ")
               \o (IF call.targetName # "" THEN "(" \o call.targetName \o ")" ELSE "")
    IN  /\ pauseCalls' = RemoveAt(pauseCalls, i)
        /\ IF ok
           THEN /\ isPaused' = ~call.resume
                /\ logs' = addLog(logs, msg, "info")
                /\ Len(logs') <= MaxLogLen
                /\ events' = addSystemEvent(events, IF call.resume THEN "RESUME" ELSE "PAUSE",
                                            msg)
                /\ pageNextRunTime' = IF call.resume THEN pageNextRunTime ELSE NoRunTime
           ELSE UNCHANGED <<isPaused, logs, events, pageNextRunTime>>
        /\ lastOp' = Op("togglePauseSettled", FALSE,
                        IF ~ok THEN "rejected" ELSE IF call.resume THEN "resumed" ELSE "paused")
        /\ UNCHANGED <<settingsVars, deployVars, clearTimeouts, progress, isRunning, nextRunTime,
                       isManualDeploying, timer, pageIsRunning, pageConfig, pageTimer,
                       isCancelling, cancelScanCalls, intervals, getConfigCalls,
                       loadConfigCalls, scanNowCalls, storedConfig, clock, stopQuiet>>

\* pauseScan or resumeScan settles: on success the flag, the log line and the
\* event; a rejection leaves the handler at the await
TogglePauseSettle(i, ok) ==
    LET call == pauseCalls[i]
        msg == (IF call.resume THEN "console.resumed " ELSE "console.paused ")
               \o (IF call.targetName # "" THEN "(" \o call.targetName \o ")" ELSE "")
    IN  /\ pauseCalls' = RemoveAt(pauseCalls, i)
        /\ IF ok
           THEN /\ isPaused' = ~call.resume
                /\ logs' = addLog(logs, msg, "info")
                /\ Len(logs') <= MaxLogLen
                /\ events' = addSystemEvent(events, IF call.resume THEN "RESUME" ELSE "PAUSE",
                                            msg)
           ELSE UNCHANGED <<isPaused, logs, events>>
        /\ lastOp' = Op("togglePauseSettled", FALSE,
                        IF ~ok THEN "rejected" ELSE IF call.resume THEN "resumed" ELSE "paused")
        /\ UNCHANGED <<settingsVars, deployVars, clearTimeouts,
                       progress, isRunning, nextRunTime, isManualDeploying,
                       timer, pageVars, isCancelling, cancelScanCalls, intervals,
                       getConfigCalls, loadConfigCalls, scanNowCalls, storedConfig, clock,
                       stopQuiet>>

\* --------------------------------------- TaskStatusPage.vue: its own scheduler
\* handleScan up to its await: the running marker and scanNow
handleScanLogs(lg) == addLog(lg, t("console.running", ""), "info")

\* the page's timer callback fires
PageTick(tm) ==
    /\ tm \in intervals
    /\ tm.owner = "page"
    /\ tm.due <= DateNow
    /\ ScansInFlight < MaxScans
    /\ logs' = handleScanLogs(logs)
    /\ Len(logs') <= MaxLogLen
    /\ scanNowCalls' = [scanNowCalls EXCEPT !.handleScan = @ + 1]
    /\ pageNextRunTime' = updateNextRunTime(tm.period)
    /\ intervals' = (intervals \ {tm}) \cup {[tm EXCEPT !.due = @ + tm.period]}
    /\ lastOp' = Op("pageTick", FALSE, "issued")
    /\ UNCHANGED <<settingsVars, deployVars, clearTimeouts,
                   progress, isRunning, nextRunTime, isManualDeploying, timer, pageIsRunning,
                   pageConfig, pageTimer, flagVars, getConfigCalls, loadConfigCalls, events,
                   storedConfig, clock, stopQuiet>>

\* the scan button, disabled while the page's scheduler runs
PageScanClick ==
    /\ ~pageIsRunning
    /\ ScansInFlight < MaxScans
    /\ logs' = handleScanLogs(logs)
    /\ Len(logs') <= MaxLogLen
    /\ scanNowCalls' = [scanNowCalls EXCEPT !.handleScan = @ + 1]
    /\ lastOp' = Op("handleScan", FALSE, "issued")
    /\ UNCHANGED <<settingsVars, deployVars, clearTimeouts,
                   progress, isRunning, nextRunTime, isManualDeploying, timer, pageVars,
                   flagVars, intervals, getConfigCalls, loadConfigCalls, events,
                   storedConfig, clock, stopQuiet>>

\* scanNow of handleScan settles: the try body or the catch, then the finally
PageScanSettle(o) ==
    /\ scanNowCalls.handleScan > 0
    /\ scanNowCalls' = [scanNowCalls EXCEPT !.handleScan = @ - 1]
    /\ logs' = scanSettledLogs(logs, o)
    /\ Len(logs') <= MaxLogLen
    /\ progress' = NoProgress
    /\ isCancelling' = FALSE
    /\ isPaused' = FALSE
    /\ lastOp' = Op("handleScanSettled", FALSE, IF o.ok THEN "ok" ELSE "failed")
    /\ UNCHANGED <<settingsVars, deployVars, clearTimeouts,
                   isRunning, nextRunTime, isManualDeploying, timer, pageVars,
                   cancelScanCalls, pauseCalls, intervals, getConfigCalls, loadConfigCalls,
                   events,
                   storedConfig, clock, stopQuiet>>

\* the page's startScheduler past its config guard: the timer is set from the
\* configuration the page holds, without clearing a timer
pageStartScheduler(isRestart) ==
    LET intervalMs == pageConfig.interval_minutes * 60 * 1000
        msg == t("console.schedulerStarted", ToString(pageConfig.interval_minutes))
    IN  /\ pageIsRunning' = TRUE
        /\ IF ~isRestart
           THEN /\ ScansInFlight < MaxScans
                /\ logs' = handleScanLogs(addLog(logs, msg, "info"))
                /\ Len(logs') <= MaxLogLen
                /\ events' = addSystemEvent(events, "SCHEDULER_START", msg)
                /\ scanNowCalls' = [scanNowCalls EXCEPT !.handleScan = @ + 1]
           ELSE UNCHANGED <<logs, events, scanNowCalls>>
        /\ pageNextRunTime' = updateNextRunTime(intervalMs)
        /\ pageTimer' = setIntervalId

\* the start/stop button while the page's scheduler is stopped: startScheduler()
PageStartClick ==
    /\ ~pageIsRunning
    /\ IF pageConfig = NoConfig
       THEN UNCHANGED <<pageVars, logs, events, scanNowCalls, intervals>>
       ELSE /\ pageStartScheduler(FALSE)
            /\ Cardinality(intervals) < MaxTimers
            /\ intervals' = intervals \cup
                    {setInterval("page", pageConfig.interval_minutes * 60 * 1000)}
            /\ UNCHANGED pageConfig
    /\ lastOp' = Op("pageStart", FALSE, IF pageConfig = NoConfig THEN "returned" ELSE "started")
    /\ UNCHANGED <<settingsVars, deployVars, clearTimeouts,
                   progress, isRunning, nextRunTime, isManualDeploying, timer, flagVars,
                   getConfigCalls, loadConfigCalls, storedConfig, clock, stopQuiet>>

\* the start/stop button while the page's scheduler runs: stopScheduler()
PageStopClick ==
    LET msg == t("console.schedulerStopped", "")
    IN  /\ pageIsRunning
        /\ pageIsRunning' = FALSE
        /\ intervals' = IF pageTimer # NoTimer THEN clearInterval(intervals, pageTimer)
                        ELSE intervals
        /\ pageTimer' = NoTimer
        /\ pageNextRunTime' = NoRunTime
        /\ logs' = addLog(logs, msg, "info")
        /\ Len(logs') <= MaxLogLen
        /\ events' = addSystemEvent(events, "SCHEDULER_STOP", msg)
        /\ lastOp' = Op("pageStop", FALSE, "")
        /\ UNCHANGED <<settingsVars, deployVars, clearTimeouts,
                       progress, isRunning, nextRunTime, isManualDeploying, timer, pageConfig,
                       flagVars, getConfigCalls, loadConfigCalls, scanNowCalls, storedConfig,
                       clock, stopQuiet>>

\* onActivated: loadConfig() is called and not awaited, then the silent restart
PageActivated ==
    /\ loadConfigCalls < MaxPending
    /\ loadConfigCalls' = loadConfigCalls + 1
    /\ IF pageIsRunning /\ pageConfig # NoConfig
       THEN /\ pageStartScheduler(TRUE)
            /\ intervals' =
                   (IF pageTimer # NoTimer THEN clearInterval(intervals, pageTimer)
                    ELSE intervals)
                   \cup {setInterval("page", pageConfig.interval_minutes * 60 * 1000)}
            /\ UNCHANGED pageConfig
       ELSE UNCHANGED <<pageVars, logs, events, scanNowCalls, intervals>>
    /\ lastOp' = Op("pageActivated", pageIsRunning /\ pageConfig # NoConfig, "")
    /\ UNCHANGED <<settingsVars, deployVars, clearTimeouts,
                   progress, isRunning, nextRunTime, isManualDeploying, timer, flagVars,
                   getConfigCalls, storedConfig, clock, stopQuiet>>

\* getConfig of the page's loadConfig settles
LoadConfigSettle(ok) ==
    /\ loadConfigCalls > 0
    /\ loadConfigCalls' = loadConfigCalls - 1
    /\ IF ok
       THEN /\ pageConfig' = storedConfig
            /\ UNCHANGED logs
       ELSE /\ logs' = addLog(logs, t("console.failedLoadConfig", "error"), "error")
            /\ Len(logs') <= MaxLogLen
            /\ UNCHANGED pageConfig
    /\ lastOp' = Op("loadConfigSettled", FALSE, IF ok THEN "ok" ELSE "failed")
    /\ UNCHANGED <<settingsVars, deployVars, clearTimeouts,
                   progress, isRunning, nextRunTime, isManualDeploying, timer, pageIsRunning,
                   pageNextRunTime, pageTimer, flagVars, intervals, getConfigCalls,
                   scanNowCalls, events, storedConfig, clock, stopQuiet>>

\* ------------------------------------------ SettingsPage.vue: handleManualDeploy
\* a selection of "all" that resolves to every server
deployTargetsEveryServer(servers, selection) ==
    IF selection = "all" THEN servers
    ELSE LET found == SelectSeq(servers, LAMBDA sv : sv.id = selection)
         IN  IF found = <<>> THEN <<>> ELSE <<Head(found)>>

\* the targets of a selection: filter(s => s.enabled) for "all", else find(s => s.id === selection)
deployTargets(servers, selection) ==
    IF selection = "all" THEN SelectSeq(servers, LAMBDA sv : sv.enabled)
    ELSE LET found == SelectSeq(servers, LAMBDA sv : sv.id = selection)
         IN  IF found = <<>> THEN <<>> ELSE <<Head(found)>>

\* an end of handleManualDeploy that records the audit event whatever the counters
deployFinishedAlwaysAudited(run) ==
    /\ deployMsg' = IF run.failCount = 0
                    THEN "Deployment successful to " \o ToString(run.successCount) \o " servers!"
                    ELSE "Deployment finished. Success: " \o ToString(run.successCount)
                         \o ", Failed: " \o ToString(run.failCount)
                         \o ". Check console for details."
    /\ events' = addSystemEvent(events, "MANUAL_DEPLOY",
            "Deployed to " \o ToString(run.successCount) \o " servers successfully.")
    /\ Len(events') <= MaxEvents
    /\ isDeploying' = FALSE
    /\ deployRun' = NoDeploy

\* the end of handleManualDeploy: the status message, the audit event, the finally
deployFinished(run) ==
    /\ IF run.failCount = 0
       THEN /\ deployMsg' = "Deployment successful to " \o ToString(run.successCount)
                            \o " servers!"
            /\ events' = addSystemEvent(events, "MANUAL_DEPLOY",
                    "Deployed to " \o ToString(run.successCount) \o " servers successfully.")
            /\ Len(events') <= MaxEvents
       ELSE /\ deployMsg' = "Deployment finished. Success: " \o ToString(run.successCount)
                            \o ", Failed: " \o ToString(run.failCount)
                            \o ". Check console for details."
            /\ UNCHANGED events
    /\ isDeploying' = FALSE
    /\ deployRun' = NoDeploy

\* v-model of the server select and of the two path inputs
EditDeployForm(form) ==
    /\ form # deployForm
    /\ deployForm' = form
    /\ lastOp' = Op("editDeployForm", FALSE, "")
    /\ UNCHANGED <<settingsLoadCalls, storeVars, timer, pageVars, flagVars, deployVars, settingsConfig, saveCalls,
                   testRun, clearTimeouts, intervals, getConfigCalls, loadConfigCalls,
                   scanNowCalls, events, storedConfig, clock, stopQuiet>>

\* a handleManualDeploy that clears the status message before its checks
HandleManualDeployClearing ==
    LET targets == deployTargets(settingsConfig.servers, deployForm.selectedServerId)
        returns == \/ deployForm.manualLocalPath = ""
                   \/ deployForm.manualRemotePath = ""
                   \/ deployForm.selectedServerId = ""
                   \/ targets = <<>>
    IN  /\ ~isDeploying
        /\ deployMsg' = ""
        /\ IF returns
           THEN UNCHANGED <<isDeploying, deployRun>>
           ELSE /\ isDeploying' = TRUE
                /\ deployRun' = [targets |-> targets, calls |-> <<targets[1].id>>,
                                 outcomes |-> <<>>, successCount |-> 0, failCount |-> 0]
        /\ lastOp' = Op("handleManualDeploy", FALSE,
                        IF returns THEN "returned" ELSE "awaiting")
        /\ UNCHANGED <<settingsVars, storeVars, timer, pageVars, flagVars, clearTimeouts,
                       intervals, getConfigCalls, loadConfigCalls, scanNowCalls, events,
                       storedConfig, clock, stopQuiet>>

\* handleManualDeploy up to its first await: the preconditions, the targets, the
\* flag and the manualDeploy call for the first target; its button is disabled
\* while a deployment runs
HandleManualDeploy ==
    LET targets == deployTargets(settingsConfig.servers, deployForm.selectedServerId)
        returns == \/ deployForm.manualLocalPath = ""
                   \/ deployForm.manualRemotePath = ""
                   \/ deployForm.selectedServerId = ""
                   \/ targets = <<>>
    IN  /\ ~isDeploying
        /\ IF returns
           THEN UNCHANGED deployVars
           ELSE /\ isDeploying' = TRUE
                /\ deployMsg' = ""
                /\ deployRun' = [targets |-> targets, calls |-> <<targets[1].id>>,
                                 outcomes |-> <<>>, successCount |-> 0, failCount |-> 0]
        /\ lastOp' = Op("handleManualDeploy", FALSE,
                        IF returns THEN "returned" ELSE "awaiting")
        /\ UNCHANGED <<settingsVars, storeVars, timer, pageVars, flagVars, clearTimeouts,
                       intervals, getConfigCalls, loadConfigCalls, scanNowCalls, events,
                       storedConfig, clock, stopQuiet>>

\* a loop that ends at the first target that fails
ManualDeploySettleStopping(ok) ==
    LET run == [deployRun EXCEPT !.outcomes = Append(@, ok),
                                 !.successCount = IF ok THEN @ + 1 ELSE @,
                                 !.failCount = IF ok THEN @ ELSE @ + 1]
    IN  /\ deployRun.targets # <<>>
        /\ IF ok /\ Len(run.outcomes) < Len(run.targets)
           THEN /\ deployRun' = [run EXCEPT !.calls =
                                     Append(@, run.targets[Len(run.outcomes) + 1].id)]
                /\ UNCHANGED <<isDeploying, deployMsg, events>>
           ELSE deployFinished(run)
        /\ lastOp' = Op("manualDeploySettled", FALSE, IF ok THEN "ok" ELSE "failed")
        /\ UNCHANGED <<settingsVars, storeVars, timer, pageVars, flagVars, clearTimeouts,
                       intervals, getConfigCalls, loadConfigCalls, scanNowCalls,
                       storedConfig, clock, stopQuiet>>

\* manualDeploy for one target settles: the counters, then the call for the next
\* target or the end
ManualDeploySettle(ok) ==
    LET run == [deployRun EXCEPT !.outcomes = Append(@, ok),
                                 !.successCount = IF ok THEN @ + 1 ELSE @,
                                 !.failCount = IF ok THEN @ ELSE @ + 1]
    IN  /\ deployRun.targets # <<>>
        /\ IF Len(run.outcomes) < Len(run.targets)
           THEN /\ deployRun' = [run EXCEPT !.calls =
                                     Append(@, run.targets[Len(run.outcomes) + 1].id)]
                /\ UNCHANGED <<isDeploying, deployMsg, events>>
           ELSE deployFinished(run)
        /\ lastOp' = Op("manualDeploySettled", FALSE, IF ok THEN "ok" ELSE "failed")
        /\ UNCHANGED <<settingsVars, storeVars, timer, pageVars, flagVars, clearTimeouts,
                       intervals, getConfigCalls, loadConfigCalls, scanNowCalls,
                       storedConfig, clock, stopQuiet>>

\* ------------------------------------------------ SettingsPage.vue: load, save
\* the getConfig of load(), called as the page is mounted, settles: the page
\* takes the stored configuration, or keeps its own
SettingsLoadSettle(ok) ==
    /\ settingsLoadCalls > 0
    /\ settingsLoadCalls' = settingsLoadCalls - 1
    /\ IF ok
       THEN settingsConfig' = storedConfig
       ELSE UNCHANGED settingsConfig
    /\ lastOp' = Op("settingsLoadSettled", FALSE, IF ok THEN "ok" ELSE "failed")
    /\ UNCHANGED <<storeVars, timer, pageVars, flagVars, deployVars, deployForm, saveCalls,
                   testRun, clearTimeouts, intervals, getConfigCalls, loadConfigCalls,
                   scanNowCalls, events, storedConfig, clock, stopQuiet>>

\* v-model.number of the interval input
EditInterval(i) ==
    /\ i # settingsConfig.interval_minutes
    /\ settingsConfig' = [settingsConfig EXCEPT !.interval_minutes = i]
    /\ lastOp' = Op("editInterval", FALSE, "")
    /\ UNCHANGED <<settingsLoadCalls, storeVars, timer, pageVars, flagVars, deployVars, deployForm, saveCalls,
                   testRun, clearTimeouts, intervals, getConfigCalls, loadConfigCalls,
                   scanNowCalls, events, storedConfig, clock, stopQuiet>>

\* save() up to its await: saveConfig is called with the configuration of the page
Save ==
    /\ Len(saveCalls) < MaxPending
    /\ saveCalls' = Append(saveCalls, settingsConfig)
    /\ lastOp' = Op("save", FALSE, "awaiting")
    /\ UNCHANGED <<settingsLoadCalls, storeVars, timer, pageVars, flagVars, deployVars, settingsConfig, deployForm,
                   testRun, clearTimeouts, intervals, getConfigCalls, loadConfigCalls,
                   scanNowCalls, events, storedConfig, clock, stopQuiet>>

\* the enabled checkbox of a server: v-model, then save(); the servers are not
\* edited while a connection test iterates them
ToggleServer(k) ==
    /\ testRun.index = 0
    /\ Len(saveCalls) < MaxPending
    /\ settingsConfig' = [settingsConfig EXCEPT !.servers[k].enabled = ~@]
    /\ saveCalls' = Append(saveCalls, settingsConfig')
    /\ lastOp' = Op("toggleServer", FALSE, "awaiting")
    /\ UNCHANGED <<settingsLoadCalls, storeVars, timer, pageVars, flagVars, deployVars, deployForm,
                   testRun, clearTimeouts, intervals, getConfigCalls, loadConfigCalls,
                   scanNowCalls, events, storedConfig, clock, stopQuiet>>

\* saveConfig settles: the configuration sent is stored and the audit event
\* recorded, or nothing is; the status line of the page is left out
SaveSettle(i, ok) ==
    /\ i \in 1..Len(saveCalls)
    /\ IF ok
       THEN /\ storedConfig' = saveCalls[i]
            /\ events' = addSystemEvent(events, "CONFIG_CHANGE", t("settings.saved", ""))
            /\ Len(events') <= MaxEvents
       ELSE UNCHANGED <<storedConfig, events>>
    /\ saveCalls' = RemoveAt(saveCalls, i)
    /\ lastOp' = Op("saveSettled", FALSE, IF ok THEN "ok" ELSE "failed")
    /\ UNCHANGED <<settingsLoadCalls, storeVars, timer, pageVars, flagVars, deployVars, settingsConfig, deployForm,
                   testRun, clearTimeouts, intervals, getConfigCalls, loadConfigCalls,
                   scanNowCalls, clock, stopQuiet>>

\* ---------------------------------------------- SettingsPage.vue: testAllServers
\* the error a failed testSshConnection rejects with
TestError == "timeout"

\* Array.prototype.join
RECURSIVE join(_, _)
join(lines, sep) ==
    IF lines = <<>> THEN ""
    ELSE IF Len(lines) = 1 THEN lines[1]
    ELSE lines[1] \o sep \o join(Tail(lines), sep)

\* server.name || server.host
displayName(server) == IF server.name # "" THEN server.name ELSE server.host

\* the line pushed for one server; its leading status mark is left out
resultLine(server, ok) ==
    IF ok THEN displayName(server) \o ": OK"
    ELSE displayName(server) \o ": Failed (" \o TestError \o ")"

\* the position the loop stops at next: the first from k on that is enabled, 0 for none
nextEnabled(servers, k) ==
    LET rest == {j \in k..Len(servers) : servers[j].enabled}
    IN  IF rest = {} THEN 0 ELSE CHOOSE j \in rest : \A i \in rest : j <= i

\* a loop that ends at the first server that fails
testStepStopping(run, ok) ==
    LET server == settingsConfig.servers[run.index]
        results == Append(run.results, resultLine(server, ok))
        k == IF ok THEN nextEnabled(settingsConfig.servers, run.index + 1) ELSE 0
    IN  [index |-> k,
         results |-> results,
         calls |-> IF k = 0 THEN run.calls
                   ELSE Append(run.calls, settingsConfig.servers[k].id),
         outcomes |-> Append(run.outcomes, ok),
         alerted |-> IF k = 0 THEN join(results, "\n") ELSE run.alerted]

\* the loop past one settled testSshConnection: the line pushed, then the call
\* for the next enabled server or the alert of the joined lines
testStep(run, ok) ==
    LET server == settingsConfig.servers[run.index]
        results == Append(run.results, resultLine(server, ok))
        k == nextEnabled(settingsConfig.servers, run.index + 1)
    IN  [index |-> k,
         results |-> results,
         calls |-> IF k = 0 THEN run.calls
                   ELSE Append(run.calls, settingsConfig.servers[k].id),
         outcomes |-> Append(run.outcomes, ok),
         alerted |-> IF k = 0 THEN join(results, "\n") ELSE run.alerted]

\* testAllServers up to its first await, one call at a time: the
\* testSshConnection call for the first enabled server, or the alert of no line
TestAllServers ==
    LET k == nextEnabled(settingsConfig.servers, 1)
    IN  /\ testRun.index = 0
        /\ testRun' = [index |-> k,
                       results |-> <<>>,
                       calls |-> IF k = 0 THEN <<>> ELSE <<settingsConfig.servers[k].id>>,
                       outcomes |-> <<>>,
                       alerted |-> ""]
        /\ lastOp' = Op("testAllServers", FALSE, IF k = 0 THEN "alert" ELSE "awaiting")
        /\ UNCHANGED <<settingsLoadCalls, storeVars, timer, pageVars, flagVars, deployVars, settingsConfig,
                       deployForm, saveCalls, clearTimeouts, intervals, getConfigCalls,
                       loadConfigCalls, scanNowCalls, events, storedConfig, clock, stopQuiet>>

\* testSshConnection settles for the server the loop is at
TestSettle(ok) ==
    /\ testRun.index > 0
    /\ testRun' = testStep(testRun, ok)
    /\ lastOp' = Op("testSettled", FALSE, IF testRun'.index = 0 THEN "alert" ELSE "awaiting")
    /\ UNCHANGED <<settingsLoadCalls, storeVars, timer, pageVars, flagVars, deployVars, settingsConfig,
                   deployForm, saveCalls, clearTimeouts, intervals, getConfigCalls,
                   loadConfigCalls, scanNowCalls, events, storedConfig, clock, stopQuiet>>

\* ------------------------------------------------------------ specification
Init ==
    /\ logs = <<>>
    /\ progress = NoProgress
    /\ isRunning = FALSE
    /\ nextRunTime = NoRunTime
    /\ isManualDeploying = FALSE
    /\ timer = NoTimer
    /\ pageIsRunning = FALSE
    /\ pageNextRunTime = NoRunTime
    /\ pageConfig = NoConfig
    /\ pageTimer = NoTimer
    /\ isCancelling = FALSE
    /\ isPaused = FALSE
    /\ intervals = {}
    /\ getConfigCalls = [b \in BOOLEAN |-> 0]
    /\ loadConfigCalls = 1
    /\ scanNowCalls = [executeScan |-> 0, handleScan |-> 0]
    /\ cancelScanCalls = 0
    /\ pauseCalls = <<>>
    /\ clearTimeouts = [f \in Folders |-> 0]
    /\ isDeploying = FALSE
    /\ deployMsg = ""
    /\ deployRun = NoDeploy
    /\ events = <<>>
    /\ storedConfig \in {[interval_minutes |-> i, servers |-> Servers] : i \in Intervals}
    /\ settingsConfig = DefaultConfig
    /\ settingsLoadCalls = 1
    /\ deployForm = NoForm
    /\ saveCalls = <<>>
    /\ testRun = NoTest
    /\ clock = StartClock
    /\ lastOp = Op("init", FALSE, "")
    /\ stopQuiet = FALSE

\* lib/scheduler driven through its exported functions
Next ==
    \/ \E b \in BOOLEAN : StartScheduler(b)
    \/ \E b \in BOOLEAN : GetConfigRejected(b)
    \/ \E b \in BOOLEAN : GetConfigNull(b)
    \/ \E b \in BOOLEAN : GetConfigResolved(b)
    \/ StopScheduler
    \/ \E tm \in intervals : Tick(tm)
    \/ ExecuteScan
    \/ \E o \in ScanOutcomes : ScanSettle(o)
    \/ AdvanceClock
    \/ \E i \in Intervals : SaveConfig(i)

Spec == Init /\ [][Next]_vars

\* the scan executor with the cancel control, progress events and deployments
ScanNext ==
    \/ ExecuteScan
    \/ \E o \in ScanOutcomes : ScanSettle(o)
    \/ \E f \in Folders, p \in Percentages : ProgressEvent(f, p)
    \/ \E f \in Folders : DeferredClear(f)
    \/ \E b \in BOOLEAN : SetManualDeploying(b)
    \/ HandleCancel
    \/ \E ok \in BOOLEAN : CancelScanSettle(ok)
    \/ TogglePause
    \/ \E i \in 1..Len(pauseCalls), ok \in BOOLEAN : TogglePauseSettle(i, ok)

ScanSpec == Init /\ [][ScanNext]_vars

\* TaskStatusPage.vue driven through its buttons and lifecycle hooks
PageNext ==
    \/ PageStartClick
    \/ PageStopClick
    \/ PageActivated
    \/ \E ok \in BOOLEAN : LoadConfigSettle(ok)
    \/ \E tm \in intervals : PageTick(tm)
    \/ PageScanClick
    \/ \E o \in ScanOutcomes : PageScanSettle(o)
    \/ AdvanceClock
    \/ \E i \in Intervals : SaveConfig(i)

PageSpec == Init /\ [][PageNext]_vars

\* the page's scan with its progress, cancel and pause controls
ConsoleNext ==
    \/ PageScanClick
    \/ \E o \in ScanOutcomes : PageScanSettle(o)
    \/ \E f \in Folders, p \in Percentages : ProgressEvent(f, p)
    \/ \E f \in Folders : DeferredClear(f)
    \/ HandleCancel
    \/ \E ok \in BOOLEAN : CancelScanSettle(ok)
    \/ TogglePause
    \/ \E i \in 1..Len(pauseCalls), ok \in BOOLEAN : TogglePauseSettle(i, ok)

ConsoleSpec == Init /\ [][ConsoleNext]_vars

\* the page's scan with its progress and the cancel control
CancelNext ==
    \/ PageScanClick
    \/ \E o \in ScanOutcomes : PageScanSettle(o)
    \/ \E f \in Folders, p \in Percentages : ProgressEvent(f, p)
    \/ \E f \in Folders : DeferredClear(f)
    \/ HandleCancel
    \/ \E ok \in BOOLEAN : CancelScanSettle(ok)

CancelSpec == Init /\ [][CancelNext]_vars

\* the form of a deployment to every enabled server
DeployAllForm == [selectedServerId |-> "all", manualLocalPath |-> "/p", manualRemotePath |-> "/p"]

\* lib/scheduler next to the manual deployment of the settings page
DeployNext ==
    \/ ExecuteScan
    \/ \E o \in ScanOutcomes : ScanSettle(o)
    \/ \E b \in BOOLEAN : StartScheduler(b)
    \/ \E b \in BOOLEAN : GetConfigResolved(b)
    \/ \E tm \in intervals : Tick(tm)
    \/ AdvanceClock
    \/ SettingsLoadSettle(TRUE)
    \/ \E form \in {DeployAllForm} : EditDeployForm(form)
    \/ HandleManualDeploy
    \/ \E ok \in BOOLEAN : ManualDeploySettle(ok)

DeploySpec == Init /\ [][DeployNext]_vars

\* the scan executor alone, over every shape of result
ExecutorNext ==
    \/ ExecuteScan
    \/ \E o \in WideScanOutcomes : ScanSettle(o)

ExecutorSpec == Init /\ [][ExecutorNext]_vars

\* the page's start and stop with the pause control of the scan a start issues
PauseNext ==
    \/ \E ok \in BOOLEAN : LoadConfigSettle(ok)
    \/ PageStartClick
    \/ PageStopClick
    \/ \E o \in ScanOutcomes : PageScanSettle(o)
    \/ \E f \in Folders, p \in Percentages : ProgressEvent(f, p)
    \/ \E f \in Folders : DeferredClear(f)
    \/ TogglePause
    \/ \E i \in 1..Len(pauseCalls), ok \in BOOLEAN : TogglePauseSettle(i, ok)

PauseSpec == Init /\ [][PauseNext]_vars

\* the manual deployment of the settings page over every state of its form
DispatchNext ==
    \/ \E ok \in BOOLEAN : SettingsLoadSettle(ok)
    \/ \E form \in DeployForms : EditDeployForm(form)
    \/ HandleManualDeploy
    \/ \E ok \in BOOLEAN : ManualDeploySettle(ok)

DispatchSpec == Init /\ [][DispatchNext]_vars

\* the connection test of the settings page over every setting of the enabled flags
TestNext ==
    \/ SettingsLoadSettle(TRUE)
    \/ \E k \in DOMAIN settingsConfig.servers : ToggleServer(k)
    \/ SaveSettle(1, TRUE)
    \/ TestAllServers
    \/ \E ok \in BOOLEAN : TestSettle(ok)

TestSpec == Init /\ [][TestNext]_vars

\* the interval of the settings page, saved and then read by a restart of lib/scheduler
SettingsNext ==
    \/ \E ok \in BOOLEAN : SettingsLoadSettle(ok)
    \/ \E i \in FormIntervals : EditInterval(i)
    \/ Save
    \/ \E i \in 1..Len(saveCalls), ok \in BOOLEAN : SaveSettle(i, ok)
    \/ StartScheduler(TRUE)
    \/ GetConfigResolved(TRUE)

SettingsSpec == Init /\ [][SettingsNext]_vars

\* the cancel control next to the scans of the page and of the scan executor,
\* every collaborator call and every timeout settling in the end
CancelLiveNext ==
    \/ PageScanClick
    \/ \E o \in ScanOutcomes : PageScanSettle(o)
    \/ ExecuteScan
    \/ \E o \in ScanOutcomes : ScanSettle(o)
    \/ \E f \in Folders, p \in Percentages : ProgressEvent(f, p)
    \/ \E f \in Folders : DeferredClear(f)
    \/ HandleCancel
    \/ \E ok \in BOOLEAN : CancelScanSettle(ok)

CancelLiveSpec ==
    /\ Init
    /\ [][CancelLiveNext]_vars
    /\ WF_vars(\E o \in ScanOutcomes : PageScanSettle(o))
    /\ WF_vars(\E o \in ScanOutcomes : ScanSettle(o))
    /\ WF_vars(\E f \in Folders : DeferredClear(f))
    /\ WF_vars(\E ok \in BOOLEAN : CancelScanSettle(ok))

\* the cancel and pause controls of the page over one progress, with failing
\* collaborator calls
AdvisoryNext ==
    \/ PageScanClick
    \/ \E o \in ScanOutcomes : PageScanSettle(o)
    \/ ProgressEvent("A", 50)
    \/ HandleCancel
    \/ \E ok \in BOOLEAN : CancelScanSettle(ok)
    \/ TogglePause
    \/ \E i \in 1..Len(pauseCalls), ok \in BOOLEAN : TogglePauseSettle(i, ok)

AdvisorySpec == Init /\ [][AdvisoryNext]_vars

\* the page's scheduler under page activations, with time passing without an
\* end; the page is activated while no tick is due, a due tick fires, and
\* every collaborator call settles
ActivationNext ==
    \/ \E ok \in BOOLEAN : LoadConfigSettle(ok)
    \/ PageStartClick
    \/ (\A tm \in intervals : tm.due > DateNow) /\ PageActivated
    \/ \E tm \in intervals : PageTick(tm)
    \/ \E o \in ScanOutcomes : PageScanSettle(o)
    \/ AdvanceDayClock

ActivationSpec ==
    /\ Init
    /\ [][ActivationNext]_vars
    /\ WF_vars(\E ok \in BOOLEAN : LoadConfigSettle(ok))
    /\ WF_vars(\E tm \in intervals : PageTick(tm))
    /\ WF_vars(\E o \in ScanOutcomes : PageScanSettle(o))
    /\ WF_vars(AdvanceDayClock)

\* the log under a stream of log-message events that passes the cap
LogNext == \E level \in LogLevels : LogMessage(level)

LogSpec == Init /\ [][LogNext]_vars

\* ------------------------------------------------------------------ claims
StartedMsg == t("console.schedulerStarted", ToString(storedConfig.interval_minutes))
StoppedMsg == t("console.schedulerStopped", "")
StartEvent == [action |-> "SCHEDULER_START", desc |-> StartedMsg]
StopEvent == [action |-> "SCHEDULER_STOP", desc |-> StoppedMsg]

\* the time of day, as displayed, m minutes after midnight of the first day
TimeOfDay(m) == Pad2((m \div 60) % 24) \o ":" \o Pad2(m % 60) \o ":00"

\* C1: at most one scanNow call is in flight at any time.
C1_SingleFlight == ScansInFlight <= 1

\* C2: start() while Running, not as a silent restart, is a no-op: run state,
\* timer and nextRunTime unchanged, no getConfig call, no SCHEDULER_START event
\* or log line, no scan.
C2_StartWhileRunningIsNoOp ==
    [][(lastOp'.op = "startScheduler" /\ ~lastOp'.isRestart /\ isRunning)
        => UNCHANGED <<isRunning, timer, intervals, nextRunTime, getConfigCalls, logs,
                       events, scanNowCalls>>]_vars

C2_Witness ==
    /\ lastOp = Op("startScheduler", FALSE, "returned")
    /\ isRunning
    /\ timer # NoTimer

\* C3: at most one recurring timer is live at any time, the one the scheduler
\* holds, also when a second start() is issued while the first awaits
\* getConfig; a start that passed the guard and loaded its configuration runs
\* the scan executor exactly once, any other settlement or call not at all.
C3_OneLiveTimer ==
    [][/\ Cardinality(intervals') <= 1
       /\ \A tm \in intervals' : tm.id = timer'
       /\ lastOp'.op = "getConfigSettled" =>
            Len(logs') - Len(logs) + Len(events') - Len(events) =
                IF lastOp'.outcome = "resolved" /\ ~lastOp'.isRestart THEN 3
                ELSE IF lastOp'.outcome = "null" THEN 1 ELSE 0
       /\ lastOp'.op = "getConfigSettled" =>
            scanNowCalls'.executeScan - scanNowCalls.executeScan =
                IF lastOp'.outcome = "resolved" /\ ~lastOp'.isRestart THEN 1 ELSE 0
       /\ lastOp'.op \in {"startScheduler", "stopScheduler"} => scanNowCalls' = scanNowCalls]_vars

\* two start() calls were accepted, the second while the first awaited getConfig
C3_Witness ==
    /\ Len(events) = 2
    /\ events[1].action = "SCHEDULER_START"
    /\ events[2].action = "SCHEDULER_START"
    /\ Cardinality(intervals) = 1
    /\ scanNowCalls.executeScan = 2

\* C4: after stop() the scheduler is Stopped (isRunning false, timer cancelled,
\* nextRunTime '-', one SCHEDULER_STOP event and one log line) and no timer
\* triggers a scan until a start is requested again, also when stop() came
\* while a start or silent restart awaited getConfig.
C4_StopStaysStopped ==
    [][/\ lastOp'.op = "stopScheduler" =>
            /\ ~isRunning'
            /\ timer' = NoTimer
            /\ intervals' = {}
            /\ nextRunTime' = NoRunTime
            /\ events' = Append(events, StopEvent)
            /\ logs' = <<[msg |-> StoppedMsg, type |-> "info"]>> \o logs
       /\ lastOp'.op = "tick" => ~stopQuiet]_vars

\* C5: stop() while Stopped is a no-op: no state change, no log line, no
\* SCHEDULER_STOP event.
C5_StopWhileStoppedIsNoOp ==
    [][(lastOp'.op = "stopScheduler" /\ ~isRunning)
        => UNCHANGED <<storeVars, timer, intervals, events>>]_vars

\* C6: when start() cannot load the configuration (getConfig fails or yields
\* none) it adds one error line to the log and leaves isRunning, the timer and
\* nextRunTime as they were, with no SCHEDULER_START event and no scan.
C6_ConfigUnavailable ==
    [][(lastOp'.op = "getConfigSettled" /\ lastOp'.outcome \in {"rejected", "null"})
        => /\ Len(logs') = Len(logs) + 1
           /\ logs'[1].type = "error"
           /\ Tail(logs') = logs
           /\ UNCHANGED <<isRunning, timer, intervals, nextRunTime, events, scanNowCalls>>]_vars

\* C7: a start() from Stopped (one that passed the guard) with a loadable
\* configuration sets Running, creates the recurring timer with period
\* interval_minutes*60000, sets
\* nextRunTime to now plus that period, records exactly one SCHEDULER_START
\* event and one log line, and triggers exactly one immediate scan.
C7_StartFromStopped ==
    [][lastOp' = Op("getConfigSettled", FALSE, "resolved")
        => /\ isRunning'
           /\ timer' # NoTimer
           /\ intervals' = {[id |-> timer', owner |-> "scheduler",
                             period |-> storedConfig.interval_minutes * 60000,
                             due |-> (clock + storedConfig.interval_minutes) * 60000]}
           /\ nextRunTime' = TimeOfDay(clock + storedConfig.interval_minutes)
           /\ events' = Append(events, StartEvent)
           /\ logs' = <<[msg |-> "console.running", type |-> "info"],
                        [msg |-> StartedMsg, type |-> "info"]>> \o logs
           /\ scanNowCalls' = [scanNowCalls EXCEPT !.executeScan = @ + 1]]_vars

\* started ten minutes before midnight with interval_minutes = 10
C7_Witness ==
    /\ lastOp = Op("getConfigSettled", FALSE, "resolved")
    /\ isRunning
    /\ Len(events) = 1
    /\ nextRunTime = "00:00:00"
    /\ \E tm \in intervals : tm.id = timer /\ tm.period = 600000

\* C8: a silent restart while Running replaces the timer by a new one and
\* leaves the state Running, without an immediate scan and without a
\* SCHEDULER_START log line or event.
C8_SilentRestart ==
    [][(lastOp' = Op("getConfigSettled", TRUE, "resolved") /\ isRunning)
        => /\ isRunning'
           /\ timer' \notin {timer, NoTimer}
           /\ \A tm \in intervals : tm.id = timer => tm \notin intervals'
           /\ \E tm \in intervals' : tm.id = timer'
           /\ Cardinality(intervals') = 1
           /\ UNCHANGED <<logs, events, scanNowCalls>>]_vars

C8_Witness ==
    /\ lastOp = Op("getConfigSettled", TRUE, "resolved")
    /\ isRunning
    /\ events # <<>>
    /\ events[Len(events)].action = "SCHEDULER_START"
    /\ \E tm \in intervals : tm.id = timer

\* C9: a silent restart hot-applies an interval change: when the stored
\* interval_minutes differs from the one loaded before, the timer the restart
\* creates has the period of the stored value and nextRunTime is computed from
\* it.  The pages' onActivated restarts from the configuration loaded before.
C9_RestartAppliesStoredInterval ==
    [][(/\ lastOp' = Op("pageActivated", TRUE, "")
        /\ pageConfig.interval_minutes # storedConfig.interval_minutes)
       => LET intervalMs == storedConfig.interval_minutes * 60 * 1000
          IN  /\ \E tm \in intervals' : tm.id = pageTimer' /\ tm.period = intervalMs
              /\ pageNextRunTime' = toLocaleTimeString(DateNow + intervalMs)]_vars

\* C10: every execution of the scan executor, on every exit path (success,
\* whole-call failure, cancellation, refusal), ends with the progress absent
\* and with isCancelling and isPaused both false.
C10_ExecutorCleanup ==
    [][(\/ lastOp'.op = "scanSettled"
        \/ lastOp' = Op("executeScan", FALSE, "refused"))
       => /\ progress' = NoProgress
          /\ ~isCancelling'
          /\ ~isPaused']_vars

\* C11: whenever no scan is in flight and no deferred clear is pending the
\* progress is absent, and the cleanup of a scan that settles while another
\* one is still in flight does not wipe the progress shown.
C11_NoStaleProgress ==
    [][/\ (ScansInFlight' = 0 /\ PendingClears' = 0) => progress' = NoProgress
       /\ (lastOp'.op = "handleScanSettled" /\ ScansInFlight' > 0) => progress' = progress]_vars

\* the log lines of type "error" among the first n lines
ErrorLines(lg, n) == Cardinality({i \in 1..n : lg[i].type = "error"})

\* C12: when the scan executor is invoked (by a tick, by a start or directly)
\* while a manual deployment is in progress, it issues no scanNow call and
\* adds exactly one error line to the log.
C12_NoScanWhileDeploying ==
    [][(/\ \/ lastOp'.op \in {"executeScan", "tick"}
           \/ lastOp' = Op("getConfigSettled", FALSE, "resolved")
        /\ isDeploying)
       => /\ scanNowCalls' = scanNowCalls
          /\ ErrorLines(logs', Len(logs') - Len(logs)) = 1]_vars

\* C13: a manual deployment invoked with its preconditions met while a scan is
\* in flight is refused: no manualDeploy call is issued and exactly one error
\* line is added to the log.
C13_NoDeployWhileScanning ==
    [][(lastOp'.op = "handleManualDeploy" /\ ScansInFlight > 0)
       => /\ ~isDeploying'
          /\ deployRun' = NoDeploy
          /\ \/ lastOp'.outcome = "returned"
             \/ ErrorLines(logs', Len(logs') - Len(logs)) = 1]_vars

\* the log line of a scan whose whole call failed
FailedLine == [msg |-> t("console.scanFailed", "scan failed"), type |-> "error"]

\* C14: a scan whose whole call fails adds exactly one failure line to the
\* log, is not retried (its call is over and no scanNow call is issued), and
\* leaves isRunning, the timer and nextRunTime as they were, so that later
\* ticks still trigger scans.
C14_ScanFailure ==
    [][lastOp' = Op("scanSettled", FALSE, "failed")
       => /\ logs' = <<FailedLine>> \o logs
          /\ scanNowCalls' = [scanNowCalls EXCEPT !.executeScan = @ - 1]
          /\ UNCHANGED <<isRunning, timer, intervals, nextRunTime, getConfigCalls, events>>]_vars

\* a tick triggered a scan after the immediate scan of the start had failed
C14_Witness ==
    /\ lastOp = Op("tick", FALSE, "issued")
    /\ isRunning
    /\ Len(logs) >= 2
    /\ logs[1].msg = "console.running"
    /\ logs[2] = FailedLine
    /\ scanNowCalls.executeScan = 1

\* a sequence in reverse order: the log holds the newest line first
Rev(seq) == [i \in 1..Len(seq) |-> seq[Len(seq) + 1 - i]]

\* one log line per item, in the order of the list
ItemLines(prefix, items, type) ==
    [i \in 1..Len(items) |-> [msg |-> prefix \o items[i], type |-> type]]

\* the lines of a successful scan in the order of their insertion
SuccessLines(r) ==
    <<[msg |-> "console.scanComplete{" \o ToString(r.scanned_paths) \o ","
               \o ToString(Len(r.found_folders)) \o "," \o ToString(Len(r.copied_folders))
               \o "}",
       type |-> "success"]>>
    \o ItemLines("Found candidate: ", r.found_folders, "info")
    \o ItemLines("Successfully copied: ", r.copied_folders, "success")
    \o ItemLines("Error: ", r.errors, "error")

CancellingLines ==
    {[msg |-> "console.cancelling (" \o f \o ")", type |-> "info"] : f \in Folders}

C17_OnlyCleanupResetsFlags ==
    [][/\ (isCancelling /\ ~isCancelling')
            => lastOp'.op \in {"handleScanSettled", "scanSettled"}
       /\ (isPaused /\ ~isPaused')
            => \/ lastOp'.op \in {"handleScanSettled", "scanSettled"}
               \/ lastOp' = Op("togglePauseSettled", FALSE, "resumed")]_vars

\* C18: cancel, pause and resume update their flag at the request itself,
\* before cancelScan, pauseScan or resumeScan has settled.
C18_FlagsSetOnRequest ==
    [][/\ lastOp' = Op("handleCancel", FALSE, "awaiting") => isCancelling'
       /\ lastOp' = Op("togglePause", FALSE, "awaiting") => isPaused' = ~isPaused]_vars

\* C20: a PAUSE event and its log line are recorded only while the operation
\* is not paused, so that no second PAUSE follows without a resume or a cleanup
\* in between, also when the second request came before the first pauseScan
\* call had settled.
C20_NoDuplicatePause ==
    [][lastOp' = Op("togglePauseSettled", FALSE, "paused")
       => /\ ~isPaused
          /\ Len(events') = Len(events) + 1
          /\ Len(logs') = Len(logs) + 1]_vars

\* C19: pause and resume, at the request and when their call settles, leave the
\* run state, the recurring timer and nextRunTime as they were, and neither
\* start nor end a scan.
C19_PauseLeavesScheduler ==
    [][lastOp'.op \in {"togglePause", "togglePauseSettled"}
       => UNCHANGED <<isRunning, timer, nextRunTime, pageIsRunning, pageTimer,
                      pageNextRunTime, intervals, scanNowCalls>>]_vars

\* a scan of the running scheduler was paused
C19_Witness ==
    /\ lastOp = Op("togglePauseSettled", FALSE, "paused")
    /\ isPaused
    /\ pageIsRunning
    /\ pageNextRunTime # NoRunTime
    /\ \E tm \in intervals : tm.id = pageTimer
    /\ ScansInFlight = 1

\* C21: when the deferred clear scheduled by the completion event of folder X
\* fires, the progress becomes absent if it still names X; if it names another
\* folder, the progress and the isPaused flag are left as they are.
C21_DeferredClearOwnFolder ==
    [][\A f \in Folders :
          clearTimeouts'[f] < clearTimeouts[f]
              => IF progress.folder = f
                 THEN progress' = NoProgress
                 ELSE progress' = progress /\ isPaused' = isPaused]_vars

\* a deferred clear has fired over the progress of another folder, with the scan paused
C21_Witness ==
    /\ lastOp = Op("deferredClear", FALSE, "kept")
    /\ progress # NoProgress
    /\ isPaused

\* C22: the deferred clear never wipes a progress written after the completion
\* event that scheduled it: a progress below 100 percent, which only a later
\* event can have written, is still there once the clear has fired.
C22_NewerProgressKept ==
    [][(lastOp'.op = "deferredClear" /\ progress # NoProgress /\ progress.percentage < 100)
          => progress' = progress]_vars

SelectedServers ==
    {k \in DOMAIN settingsConfig.servers :
        IF deployForm.selectedServerId = "all"
        THEN settingsConfig.servers[k].enabled
        ELSE settingsConfig.servers[k].id = deployForm.selectedServerId}

\* the ids of a sequence of servers
Ids(servers) == [k \in DOMAIN servers |-> servers[k].id]

\* C24: with both paths given, handleManualDeploy resolves "all" to the enabled
\* servers and any other selection to the server of that id, whatever its
\* enabled flag, and returns when no server is selected; a deployment that
\* completes has called manualDeploy once for each of its targets and for no
\* other server.
C24_TargetSet ==
    [][/\ (/\ lastOp'.op = "handleManualDeploy"
           /\ deployForm.manualLocalPath # ""
           /\ deployForm.manualRemotePath # "")
          => IF SelectedServers = {}
             THEN lastOp'.outcome = "returned" /\ deployRun' = NoDeploy
             ELSE /\ lastOp'.outcome = "awaiting"
                  /\ Len(deployRun'.targets) = Cardinality(SelectedServers)
                  /\ {sv.id : sv \in {deployRun'.targets[k] : k \in DOMAIN deployRun'.targets}}
                        = {settingsConfig.servers[k].id : k \in SelectedServers}
       /\ (isDeploying /\ ~isDeploying')
          => deployRun.calls = Ids(deployRun.targets)]_vars

\* "all" has resolved to the two enabled servers of three
C24_Witness ==
    /\ lastOp = Op("handleManualDeploy", FALSE, "awaiting")
    /\ deployForm.selectedServerId = "all"
    /\ Ids(deployRun.targets) = <<"s1", "s3">>
    /\ Len(settingsConfig.servers) = 3

\* C25: handleManualDeploy invoked with an empty local path, an empty remote
\* path or an empty target set changes nothing: no manualDeploy call, no audit
\* event, no log line, isDeploying and the status message as they were.
C25_EmptyDeployIsNoOp ==
    [][(/\ lastOp'.op = "handleManualDeploy"
        /\ \/ deployForm.manualLocalPath = ""
           \/ deployForm.manualRemotePath = ""
           \/ SelectedServers = {})
       => UNCHANGED <<isDeploying, deployMsg, deployRun, events, logs>>]_vars

\* a deployment with both paths given and no server selected has returned,
\* the message of the deployment before it still shown
C25_Witness ==
    /\ lastOp = Op("handleManualDeploy", FALSE, "returned")
    /\ deployForm.manualLocalPath # ""
    /\ deployForm.manualRemotePath # ""
    /\ deployForm.selectedServerId # ""
    /\ SelectedServers = {}
    /\ deployMsg # ""

\* the number of attempts of a list of outcomes that succeeded
Succeeded(outcomes) == Cardinality({k \in DOMAIN outcomes : outcomes[k]})

\* the status message of a completed deployment
DeployMessage(successCount, failCount) ==
    IF failCount = 0
    THEN "Deployment successful to " \o ToString(successCount) \o " servers!"
    ELSE "Deployment finished. Success: " \o ToString(successCount) \o ", Failed: "
         \o ToString(failCount) \o ". Check console for details."

\* C26: whatever the outcome of an attempt, the next target is attempted, so
\* that every target gets exactly one manualDeploy call; the counters count the
\* succeeded and the failed attempts, and on completion they add up to the
\* number of targets.
C26_FailuresIsolated ==
    [][lastOp'.op = "manualDeploySettled"
       => LET outcomes == Append(deployRun.outcomes, lastOp'.outcome = "ok")
              S == Succeeded(outcomes)
              F == Len(outcomes) - S
          IN  IF Len(outcomes) < Len(deployRun.targets)
              THEN /\ isDeploying'
                   /\ deployRun'.calls = SubSeq(Ids(deployRun.targets), 1, Len(outcomes) + 1)
                   /\ deployRun'.successCount = S
                   /\ deployRun'.failCount = F
              ELSE /\ ~isDeploying'
                   /\ deployRun.calls = Ids(deployRun.targets)
                   /\ S + F = Len(deployRun.targets)
                   /\ deployMsg' = DeployMessage(S, F)]_vars

\* the first of two targets has failed and the second is being attempted
C26_Witness ==
    /\ isDeploying
    /\ deployRun.outcomes = <<FALSE>>
    /\ deployRun.calls = <<"s1", "s3">>

\* C27: a deployment that completes without a failed target records one
\* MANUAL_DEPLOY event and shows the success message; one with a failed target
\* records no event and shows both counters; no event is recorded before the
\* completion.
C27_AggregateAudit ==
    [][lastOp'.op \in {"handleManualDeploy", "manualDeploySettled"}
       => IF isDeploying /\ ~isDeploying'
          THEN LET outcomes == Append(deployRun.outcomes, lastOp'.outcome = "ok")
                   S == Succeeded(outcomes)
                   F == Len(outcomes) - S
               IN  IF F = 0
                   THEN /\ events' = Append(events,
                                [action |-> "MANUAL_DEPLOY",
                                 desc |-> "Deployed to " \o ToString(S)
                                          \o " servers successfully."])
                        /\ deployMsg' = "Deployment successful to " \o ToString(S)
                                        \o " servers!"
                   ELSE /\ events' = events
                        /\ deployMsg' = DeployMessage(S, F)
          ELSE events' = events]_vars

\* a deployment to two targets, one of which failed, has completed without an event
C27_Witness ==
    /\ lastOp.op = "manualDeploySettled"
    /\ ~isDeploying
    /\ deployMsg = DeployMessage(1, 1)
    /\ events = <<>>

\* C28: the failure of a deployment target adds one error entry to the log.
C28_FailureLogged ==
    [][lastOp' = Op("manualDeploySettled", FALSE, "failed")
       => /\ Len(logs') = Len(logs) + 1
          /\ logs'[1].type = "error"]_vars

\* the enabled servers of the page's configuration, in configuration order
EnabledServers == SelectSeq(settingsConfig.servers, LAMBDA sv : sv.enabled)

C30_IntervalAtLeastMinimum ==
    /\ \A k \in DOMAIN saveCalls : saveCalls[k].interval_minutes >= MIN_INTERVAL
    /\ storedConfig.interval_minutes >= MIN_INTERVAL
    /\ \A tm \in intervals : tm.period >= MIN_INTERVAL * 60 * 1000

\* C31: in every state the scheduler is running exactly when a recurring timer
\* is live, which is the one the timer variable holds, and exactly when
\* nextRunTime is not '-'.
C31_RunStateConsistent ==
    /\ isRunning <=> intervals # {}
    /\ isRunning <=> (timer # NoTimer /\ \E tm \in intervals : tm.id = timer)
    /\ isRunning <=> nextRunTime # NoRunTime

\* the scheduler has been started and, once time has passed, stopped
C31_Witness ==
    /\ lastOp.op = "stopScheduler"
    /\ ~isRunning
    /\ intervals = {}
    /\ nextRunTime = NoRunTime
    /\ clock > StartClock
    /\ \E k \in DOMAIN events : events[k].action = "SCHEDULER_START"

\* C32: isPaused is true only while a progress is present.
C32_PausedOnlyWithProgress == isPaused => progress # NoProgress

\* C33: whenever isCancelling is true it is false at some later time, every
\* collaborator call settling in the end; a run whose log has no room left for
\* the line of a settlement is not held against the claim.
C33_CancellingEnds == isCancelling ~> (~isCancelling \/ Len(logs) = MaxLogLen)

\* C34: a cancel request made while isCancelling is true sends no cancelScan
\* call and adds no log line, and isCancelling stays true.
C34_RepeatedCancelIsNoOp ==
    [][(lastOp'.op = "handleCancel" /\ isCancelling)
       => /\ cancelScanCalls' = cancelScanCalls
          /\ logs' = logs
          /\ isCancelling']_vars

\* a second cancel request has returned while the cancelScan call of the first is pending
C34_Witness ==
    /\ lastOp = Op("handleCancel", FALSE, "returned")
    /\ isCancelling
    /\ cancelScanCalls = 1
    /\ \E k \in DOMAIN logs : logs[k] \in CancellingLines

\* C35: a cancelScan call that fails resets isCancelling to false and adds
\* exactly one line, an error line, to the log; a pauseScan or resumeScan call
\* that fails leaves isPaused, the log and the audit events unchanged.
C35_FailedAdvisoryCall ==
    [][/\ lastOp' = Op("cancelScanSettled", FALSE, "failed")
            => /\ ~isCancelling'
               /\ Len(logs') = Len(logs) + 1
               /\ logs'[1].type = "error"
               /\ SubSeq(logs', 2, Len(logs')) = logs
       /\ lastOp' = Op("togglePauseSettled", FALSE, "rejected")
            => UNCHANGED <<isPaused, logs, events>>]_vars

\* a resume has failed and the scan is still paused, after a cancel that failed
C35_Witness ==
    /\ lastOp = Op("togglePauseSettled", FALSE, "rejected")
    /\ isPaused
    /\ ~isCancelling
    /\ \E k \in DOMAIN logs : logs[k] = [msg |-> "Cancel failed: error", type |-> "error"]

\* C36: in a run in which the page's scheduler stays running from some time on
\* and time keeps passing, scans triggered by the timer keep occurring, however
\* the page is activated.
C36_ScansKeepOccurring ==
    (<>[]pageIsRunning /\ []<><<AdvanceDayClock>>_vars)
        => []<><<\E tm \in intervals : PageTick(tm)>>_vars

\* C37: the settings page calls saveConfig only once its load has completed,
\* and never with the servers of the default configuration; a load that
\* resolves leaves a configuration that was edited as it is.
C37_SavesOnlyLoadedConfig ==
    [][/\ Len(saveCalls') > Len(saveCalls)
            => /\ settingsLoadCalls = 0
               /\ saveCalls'[Len(saveCalls')].servers # DefaultConfig.servers
       /\ lastOp' = Op("settingsLoadSettled", FALSE, "ok")
            => settingsConfig = DefaultConfig \/ settingsConfig' = settingsConfig]_vars

====
